---- MODULE Spec2Model ----
(***************************************************************************)
(* Model of src/scaleformer/muti_Stage.py: the construction and the        *)
(* forward pass of Mlp, MBConv, MultiScaleAttention, EfficientAttention,   *)
(* SEBlock, ScaleformerBlock and ContextFormerBlock.                       *)
(*                                                                         *)
(* A 4-D activation is a record [shape, val]: its size and a symbolic term *)
(* naming how it was computed.  Learned state is split into `weights` (a   *)
(* version of every kernel / linear weight / affine parameter, moved only  *)
(* by the optimizer) and `stats` (the num_batches_tracked buffer of every  *)
(* BatchNorm2d layer, which moves together with running_mean/running_var). *)
(* The element layout of the patch partition is modelled concretely: a     *)
(* strided tensor [shape, stride, data] over element labels.               *)
(***************************************************************************)
EXTENDS Integers, Sequences, FiniteSets, TLC

\* ---------------------------------------------------------------- bounds
\* batch size: of the inputs of MultiScaleAttention, whose reshape has a
\* batch axis (MaxB), and of the inputs of the other components (MaxN)
MaxB == 2
MaxN == 1
MaxC == 3
MaxHW == 4
MaxP == 5
MaxHeads == 3
MaxS == 3
MaxTracked == 1
MaxOpt == 1

\* ------------------------------------------------------- program constants
\* mlp_ratio: float = 4.
MlpRatio == 4

\* drop_path rates in percent that a constructor is given
DropRates == {0, 50, 100}

VARIABLES pc, kind, cfg, training, weights, stats, arg, ret, ctor, lay

vars == <<pc, kind, cfg, training, weights, stats, arg, ret, ctor, lay>>

\* ------------------------------------------------------------ arithmetic
RECURSIVE Prod(_)
Prod(s) == IF s = <<>> THEN 1 ELSE Head(s) * Prod(Tail(s))

RECURSIVE Pow2(_)
Pow2(n) == IF n = 0 THEN 1 ELSE 2 * Pow2(n - 1)

Iota(n) == [i \in 1..n |-> i]

\* Row-major strides of a shape: stride[k] = product of the later sizes.
RowMajor(s) == [k \in 1..Len(s) |-> Prod(SubSeq(s, k + 1, Len(s)))]

\* ------------------------------------------------------ strided tensors
\* torch.Tensor as far as view / permute / contiguous see it: its geometry
\* (sizes and strides) and, apart from it, the storage the strides index.
Geom(shape) == [shape |-> shape, stride |-> RowMajor(shape)]

IsContiguous(g) == g.stride = RowMajor(g.shape)

\* Tensor.view(*shape) accepting any size (a missing element-count check).
ViewUnchecked(g, shape) == [ok |-> IsContiguous(g), g |-> Geom(shape)]

\* Tensor.view(*shape): the element count must be kept (and, the storage
\* being re-read in row-major order, the tensor must be contiguous).
View(g, shape) ==
    IF Prod(shape) = Prod(g.shape) /\ IsContiguous(g)
    THEN [ok |-> TRUE, g |-> Geom(shape)]
    ELSE [ok |-> FALSE, g |-> g]

\* Tensor.permute(*dims), dims 0-based as in the source: axis k of the
\* result is axis dims[k] of the operand; no element moves.
Permute(g, dims) ==
    [shape  |-> [k \in 1..Len(dims) |-> g.shape[dims[k] + 1]],
     stride |-> [k \in 1..Len(dims) |-> g.stride[dims[k] + 1]]]

\* Tensor.contiguous(): a row-major copy; its geometry ...
Contiguous(g) == Geom(g.shape)

\* The storage offset of the element at 0-based row-major position f of a
\* tensor of geometry g (rm: the row-major strides of g.shape): the sum over
\* the axes 1..k of index * stride.
RECURSIVE OffsetOf(_, _, _, _)
OffsetOf(f, g, rm, k) ==
    IF k = 0 THEN 0
    ELSE ((f \div rm[k]) % g.shape[k]) * g.stride[k] + OffsetOf(f, g, rm, k - 1)

\* ... and its storage, read out of the operand's storage.
Gather(g, data) ==
    LET rm == RowMajor(g.shape)
        n  == Len(g.shape)
    IN  [f \in 1..Prod(g.shape) |-> data[1 + OffsetOf(f - 1, g, rm, n)]]

\* ------------------------------------------------------ symbolic values
Term(op, args) == [op |-> op, args |-> args, k |-> 0, m |-> 0]
NoTerm == Term("none", <<>>)
Tensor(shape, val) == [shape |-> shape, val |-> val]
NoTensor == Tensor(<<>>, NoTerm)

\* a layer applied to an activation: same batch and spatial size, c channels
Layer(name, x, c) ==
    Tensor(<<x.shape[1], c, x.shape[3], x.shape[4]>>, Term(name, <<x.val>>))

\* --------------------------------------------------- forward-call results
NoAux == [tokens |-> <<>>, used_key |-> 0, used_value |-> 0,
          scores |-> <<>>, attn |-> NoTerm]

Raise(err, st, aux) ==
    [ok |-> FALSE, err |-> err, out |-> NoTensor, stats |-> st, aux |-> aux]

Return(out, st, aux) ==
    [ok |-> TRUE, err |-> "", out |-> out, stats |-> st, aux |-> aux]

NoRet == [ok |-> FALSE, err |-> "no call", out |-> NoTensor,
          stats |-> <<>>, aux |-> NoAux]

\* Every BatchNorm2d layer a component can own, by its module path.
AllBN == {"fc1.1", "fc2.1", "main_path.0", "main_path.2", "output_linear.1",
          "norm", "norm_1", "norm_2", "attention.output_linear.1",
          "attention.norm", "mlp.fc1.1", "mlp.fc2.1"}

ZeroStats == [l \in AllBN |-> 0]

\* a BatchNorm2d that updates its running statistics in eval mode too
BNStatsAlways(st, layer, train) == [st EXCEPT ![layer] = @ + 1]

\* nn.BatchNorm2d.forward: in training mode the running statistics are
\* updated (num_batches_tracked += 1); in eval mode they are only read.
BNStats(st, layer, train) ==
    IF train THEN [st EXCEPT ![layer] = @ + 1] ELSE st

\* ------------------------------------------------------- stochastic depth
\* timm drop_path(x, drop_prob, training): the identity when drop_prob is 0
\* or training is off; otherwise each sample is kept or zeroed at random
\* (mask: the kept samples, as bits) and the kept ones are rescaled by
\* 1 / keep_prob.
drop_path(x, rate, train, mask) ==
    IF rate = 0 \/ ~train
    THEN x
    ELSE Tensor(x.shape,
                [op |-> "drop_path", args |-> <<x.val>>, k |-> rate, m |-> mask])

\* The random draws one drop_path call can make on a batch of b samples.
Masks(rate, train, b) ==
    IF rate = 0 \/ ~train THEN {0}
    ELSE IF rate = 100 THEN {0}
    ELSE 0..(Pow2(b) - 1)

\* Broadcasting of two shapes of the same rank in `a + b`.
CanBroadcast(s, t) ==
    \A k \in 1..Len(s) : s[k] = t[k] \/ s[k] = 1 \/ t[k] = 1

Broadcast(s, t) == [k \in 1..Len(s) |-> IF s[k] = 1 THEN t[k] ELSE s[k]]

Add(a, b) == Tensor(Broadcast(a.shape, b.shape), Term("add", <<a.val, b.val>>))

\* ------------------------------------------------------------------ Mlp
\* Mlp.__init__: `hidden_channels or in_channels`, `out_channels or in_channels`
MlpHidden(c) == IF c.hidden # 0 THEN c.hidden ELSE c.in
MlpOut(c) == IF c.out # 0 THEN c.out ELSE c.in

\* Mlp.forward (drop = 0., the default: nn.Dropout(0.) passes through)
MlpForward(c, train, st, x, pfx) ==
    LET a   == Layer("fc1", x, MlpHidden(c))
        st1 == BNStats(st, pfx \o "fc1.1", train)
        b   == Layer("act", a, MlpHidden(c))
        d   == Layer("fc2", b, MlpOut(c))
        st2 == BNStats(st1, pfx \o "fc2.1", train)
    IN  Return(d, st2, NoAux)

\* ---------------------------------------------------------------- MBConv
\* MBConv.__init__ with the assert under `if downscale:` instead
MBConvInitSwapped(c) == ~c.downscale \/ c.in = c.out

\* MBConv.__init__: the assert on the channel counts
MBConvInit(c) == c.downscale \/ c.in = c.out

\* stride-2 3x3 convolution with padding 1, and 2x2 max pooling with stride 2
ConvStride2(n) == (n - 1) \div 2 + 1
Pool2(n) == n \div 2

\* MBConv.forward, the stochastic-depth gate applied in training mode even
\* when the module is in eval mode (self.training ignored)
MBConvGateAlways(c, train, x, mask) ==
    IF c.rate > 0 THEN drop_path(x, c.rate, TRUE, mask) ELSE x

\* MBConv.forward: `if self.drop_path_rate > 0.: output = drop_path(...)`
MBConvGate(c, train, x, mask) ==
    IF c.rate > 0 THEN drop_path(x, c.rate, train, mask) ELSE x

MBConvForward(c, train, st, x, mask) ==
    LET b  == x.shape[1]
        h  == x.shape[3]
        w  == x.shape[4]
        mainshape == IF c.downscale
                     THEN <<b, c.out, ConvStride2(h), ConvStride2(w)>>
                     ELSE <<b, c.out, h, w>>
        main == Tensor(mainshape, Term("main_path", <<x.val>>))
        st1  == BNStats(BNStats(st, "main_path.0", train), "main_path.2", train)
        gated == MBConvGate(c, train, main, mask)
        skip == IF c.downscale
                THEN Tensor(<<b, c.out, Pool2(h), Pool2(w)>>,
                            Term("skip_path", <<x.val>>))
                ELSE x
    IN  IF c.downscale /\ (Pool2(h) = 0 \/ Pool2(w) = 0)
        THEN Raise("max_pool2d", st1, NoAux)
        ELSE IF ~CanBroadcast(gated.shape, skip.shape)
        THEN Raise("add", st1, NoAux)
        ELSE Return(Add(gated, skip), st1, NoAux)

\* ---------------------------------------------------- MultiScaleAttention
\* query.permute(0, 2, 4, 1, 3, 5): [b, d, P, h/P, P, w/P] -> [b, P, P, d, h/P, w/P]
PartitionDims == <<0, 2, 4, 1, 3, 5>>

\* the reverse permutation with the two patch-index axes exchanged
ReverseDimsSwapped == <<0, 3, 2, 4, 1, 5>>

\* output.permute(0, 3, 1, 4, 2, 5): [b, P, P, d, h/P, w/P] -> [b, d, P, h/P, P, w/P]
ReverseDims == <<0, 3, 1, 4, 2, 5>>

\* the final view with height and width exchanged
MSAOutShapeSwapped(b, d_k, h, w) == <<b, d_k, w, h>>

\* `.view(b, d_k, h, w)` of the reassembled output
MSAOutShape(b, d_k, h, w) == <<b, d_k, h, w>>

\* view(b, d_k, out_h, height, out_w, width) -> permute -> contiguous ->
\* view(b, out_h * out_w, d_k * height * width), as applied to query, key
\* and value: `perm` is the permuted tensor before the copy, `tok` the view
\* of the copy.
Partition(g, b, d_k, out_h, height, out_w, width) ==
    LET v    == View(g, <<b, d_k, out_h, height, out_w, width>>)
        perm == Permute(v.g, PartitionDims)
        tok  == View(Contiguous(perm), <<b, out_h * out_w, d_k * height * width>>)
    IN  IF ~v.ok THEN [ok |-> FALSE, perm |-> v.g, g |-> v.g]
        ELSE [ok |-> tok.ok, perm |-> perm, g |-> tok.g]

\* output.view(b, out_h, out_w, d_k, height, width) -> permute -> contiguous
\* -> view(b, d_k, h, w)
Reverse(g, b, d_k, out_h, height, out_w, width, h, w) ==
    LET v    == View(g, <<b, out_h, out_w, d_k, height, width>>)
        perm == Permute(v.g, ReverseDims)
        out  == View(Contiguous(perm), MSAOutShape(b, d_k, h, w))
    IN  IF ~v.ok THEN [ok |-> FALSE, perm |-> v.g, g |-> v.g]
        ELSE [ok |-> out.ok, perm |-> perm, g |-> out.g]

\* `(width, height) = (w // out_w, h // out_h)`
PatchExtent(n, p) == n \div p

\* the scores taken between the feature positions of the tokens
\* (query.transpose(-2, -1) times key) instead of between the tokens
ScoresShapeTransposed(q, k) == <<q[1], q[3], k[3]>>

\* torch.matmul(query, key.transpose(-2, -1)) on token tensors [b, T, F]:
\* [b, T, F] x [b, F, T] -> [b, T, T], one score per pair of tokens
ScoresShape(q, k) == <<q[1], q[2], k[2]>>

\* ... / math.sqrt(query.size(-1))
Scores(q, k, feature_dim) ==
    [op |-> "scores", args |-> <<q, k>>, k |-> feature_dim, m |-> 0]

\* F.softmax(scores, dim=-1): the weights along the last axis are positive
\* and sum to 1, so along an axis of length 1 the weight is 1 whatever the
\* (finite) score.
Softmax(shape, s) ==
    IF shape[3] = 1 THEN Term("ones", <<>>) ELSE Term("softmax", <<s>>)

\* torch.matmul(p_attn, value): [b, T, T] x [b, T, F] -> [b, T, F]; the
\* product with the 1 x 1 weight 1 is the value itself.
Matmul(p, v) == IF p.op = "ones" THEN v ELSE Term("matmul", <<p, v>>)

\* MultiScaleAttention.forward.  The three projections keep the shape; the
\* attention step maps the token tensor to one of the same shape.
MSAForward(c, train, st, x, pfx) ==
    LET b      == x.shape[1]
        d_k    == x.shape[2]
        h      == x.shape[3]
        w      == x.shape[4]
        out_w  == c.patch
        out_h  == c.patch
        width  == PatchExtent(w, out_w)
        height == PatchExtent(h, out_h)
        tok    == Partition(Geom(<<b, d_k, h, w>>), b, d_k, out_h, height, out_w, width)
        rev    == Reverse(tok.g, b, d_k, out_h, height, out_w, width, h, w)
        query  == Term("query_embedding", <<x.val>>)
        key    == Term("key_embedding", <<x.val>>)
        value  == Term("value_embedding", <<x.val>>)
        tokens == <<b, out_h * out_w, d_k * height * width>>
        scores == ScoresShape(tokens, tokens)
        p_attn == Softmax(scores, Scores(query, key, tokens[3]))
        output == Matmul(p_attn, value)
        aux    == [NoAux EXCEPT !.tokens = tok.g.shape, !.scores = scores,
                                !.attn = output]
    IN  IF ~tok.ok THEN Raise("view", st, NoAux)
        ELSE IF ~rev.ok THEN Raise("view", st, NoAux)
        ELSE Return(Tensor(rev.g.shape, Term("MultiScaleAttention", <<x.val>>)),
                    BNStats(st, pfx \o "output_linear.1", train), aux)

\* --------------------------------------------------------------- SEBlock
\* SEBlock.forward on [N, C, h, w]: pooling needs a non-empty map; the
\* result of the closing 1x1 convolution has one channel.
SEForward(c, train, st, x) ==
    IF x.shape[3] = 0 \/ x.shape[4] = 0
    THEN Raise("adaptive_avg_pool2d", st, NoAux)
    ELSE Return(Tensor(<<x.shape[1], 1, x.shape[3], x.shape[4]>>,
                       Term("SEBlock", <<x.val>>)), st, NoAux)

\* ----------------------------------------------------- EfficientAttention
\* EfficientAttention.__init__: layers are built, nothing is checked
EAInit(c) == TRUE

\* `query_values.view(n, c, h, w)`: c is the input's channel count
EAOutShape(c, n, cc, h, w) == <<n, cc, h, w>>

EAForward(c, train, st, x, pfx) ==
    LET st1 == BNStats(st, pfx \o "norm", train)
        n   == x.shape[1]
        cc  == x.shape[2]
        h   == x.shape[3]
        w   == x.shape[4]
        head_key_channels   == c.key \div c.heads
        head_value_channels == c.value \div c.heads
        \* attended = cat of head_count contexts [n, 1, hk, hv]
        attended == Tensor(<<n, c.heads, head_key_channels, head_value_channels>>,
                           Term("attended", <<x.val>>))
        se  == SEForward([in |-> c.heads, rr |-> 1], train, st1, attended)
        \* query_values = cat of head_count tensors [n, hv, h*w]
        qv  == <<n, c.heads * head_value_channels, h * w>>
        aux == [NoAux EXCEPT !.used_key = c.heads * head_key_channels,
                             !.used_value = c.heads * head_value_channels]
        target == EAOutShape(c, n, cc, h, w)
    IN  IF ~se.ok THEN Raise(se.err, st1, aux)
        ELSE IF Prod(target) # Prod(qv) THEN Raise("view", st1, aux)
        ELSE IF target[2] # c.in THEN Raise("conv2d", st1, aux)
        ELSE Return(Tensor(<<target[1], c.in, target[3], target[4]>>,
                           Term("EfficientAttention", <<x.val>>)), st1, aux)

\* ------------------------------------------------- the transformer blocks
\* self.drop_path = DropPath(drop_path) if drop_path > 0. else nn.Identity()
DropPathModule(c, train, x, mask) ==
    IF c.rate > 0 THEN drop_path(x, c.rate, train, mask) ELSE x

\* Mlp(in_channels = in_channels, hidden_channels = int(mlp_ratio * in_channels))
BlockMlpCfg(c) == [in |-> c.in, hidden |-> MlpRatio * c.in, out |-> 0]

\* MultiScaleAttention(patchsize, in_channels)
ScaleformerAttnCfg(c) == [patch |-> c.patch, in |-> c.in]

\* EfficientAttention(in_channels, in_channels, in_channels, num_heads)
ContextFormerAttnCfg(c) ==
    [in |-> c.in, key |-> c.in, value |-> c.in, heads |-> c.heads]

\* output = input + self.drop_path(self.attention(self.norm_1(input)))
ScaleformerAttend(c, train, st, input, m1) ==
    LET n1 == Layer("norm_1", input, c.in)
        a  == MSAForward(ScaleformerAttnCfg(c), train,
                         BNStats(st, "norm_1", train), n1, "attention.")
    IN  IF ~a.ok THEN a
        ELSE Return(Add(input, DropPathModule(c, train, a.out, m1)), a.stats, a.aux)

\* output = output + self.drop_path(self.mlp(self.norm_2(output)))
ScaleformerMlp(c, train, st, output, m2) ==
    LET n2 == Layer("norm_2", output, c.in)
        f  == MlpForward(BlockMlpCfg(c), train,
                         BNStats(st, "norm_2", train), n2, "mlp.")
    IN  Return(Add(output, DropPathModule(c, train, f.out, m2)), f.stats, NoAux)

\* ScaleformerBlock.forward with the second sublayer reading the block's
\* input instead of the first residual sum
ScaleformerBlockForwardFromInput(c, train, st, input, m1, m2) ==
    LET first == ScaleformerAttend(c, train, st, input, m1)
    IN  IF ~first.ok THEN first
        ELSE LET second == ScaleformerMlp(c, train, first.stats, input, m2)
             IN  [second EXCEPT !.aux = first.aux]

\* ScaleformerBlock.forward
ScaleformerBlockForward(c, train, st, input, m1, m2) ==
    LET first == ScaleformerAttend(c, train, st, input, m1)
    IN  IF ~first.ok THEN first
        ELSE LET second == ScaleformerMlp(c, train, first.stats, first.out, m2)
             IN  [second EXCEPT !.aux = first.aux]

\* output = input + self.drop_path(self.attention(self.norm_1(input)))
ContextFormerAttend(c, train, st, input, m1) ==
    LET n1 == Layer("norm_1", input, c.in)
        a  == EAForward(ContextFormerAttnCfg(c), train,
                        BNStats(st, "norm_1", train), n1, "attention.")
    IN  IF ~a.ok THEN a
        ELSE Return(Add(input, DropPathModule(c, train, a.out, m1)), a.stats, a.aux)

\* output = output + self.drop_path(self.mlp(self.norm_2(output)))
ContextFormerMlp(c, train, st, output, m2) ==
    LET n2 == Layer("norm_2", output, c.in)
        f  == MlpForward(BlockMlpCfg(c), train,
                         BNStats(st, "norm_2", train), n2, "mlp.")
    IN  Return(Add(output, DropPathModule(c, train, f.out, m2)), f.stats, NoAux)

\* ContextFormerBlock.forward
ContextFormerBlockForward(c, train, st, input, m1, m2) ==
    LET first == ContextFormerAttend(c, train, st, input, m1)
    IN  IF ~first.ok THEN first
        ELSE LET second == ContextFormerMlp(c, train, first.stats, first.out, m2)
             IN  [second EXCEPT !.aux = first.aux]

\* ------------------------------------------------------------ components
Kinds == {"Mlp", "MBConv", "MultiScaleAttention", "EfficientAttention",
          "SEBlock", "ScaleformerBlock", "ContextFormerBlock"}

Cfg(in, out, hidden, key, value, heads, patch, downscale, rate, rr) ==
    [in |-> in, out |-> out, hidden |-> hidden, key |-> key, value |-> value,
     heads |-> heads, patch |-> patch, downscale |-> downscale, rate |-> rate,
     rr |-> rr]

NoCfg == Cfg(0, 0, 0, 0, 0, 0, 0, FALSE, 0, 0)

\* The constructor arguments tried, per component (0: argument left at None).
Configs(k) ==
    CASE k = "Mlp" ->
           {Cfg(i, o, hd, 0, 0, 0, 0, FALSE, 0, 0) :
                i \in 1..MaxC, o \in 0..MaxC, hd \in 0..1}
      [] k = "MBConv" ->
           {Cfg(i[1], i[2], 0, 0, 0, 0, 0, d, r, 0) :
                i \in (1..MaxC) \X (1..MaxC), d \in BOOLEAN, r \in DropRates}
      [] k = "MultiScaleAttention" ->
           {Cfg(i, 0, 0, 0, 0, 0, p, FALSE, 0, 0) : i \in 1..MaxC, p \in 1..MaxP}
      [] k = "EfficientAttention" ->
           {Cfg(i[1], 0, 0, i[2], i[3], hc, 0, FALSE, 0, 0) :
                i \in (1..MaxC) \X (1..MaxC) \X (1..MaxC), hc \in 1..MaxHeads}
      [] k = "SEBlock" ->
           {Cfg(i, 0, 0, 0, 0, 0, 0, FALSE, 0, rr) : i \in 1..MaxC, rr \in 1..2}
      [] k = "ScaleformerBlock" ->
           {Cfg(i, 0, 0, 0, 0, 0, p, FALSE, r, 0) :
                i \in 1..MaxC, p \in 1..MaxP, r \in DropRates}
      [] k = "ContextFormerBlock" ->
           {Cfg(i, 0, 0, 0, 0, hc, 0, FALSE, r, 0) :
                i \in 1..MaxC, hc \in 1..MaxHeads, r \in DropRates}

\* Whether the constructor returns (TRUE) or raises (FALSE).
CtorOk(k, c) ==
    CASE k = "MBConv" -> MBConvInit(c)
      [] k = "EfficientAttention" -> EAInit(c)
      [] k = "ContextFormerBlock" -> EAInit(ContextFormerAttnCfg(c))
      [] OTHER -> TRUE

\* The inputs given to forward: [B, in_channels, H, W]; the spatial range is
\* the wide one for the components that partition the grid.
Spatial(k) ==
    IF k \in {"MultiScaleAttention", "ScaleformerBlock"} THEN 1..MaxHW ELSE 1..MaxS

Batch(k) == IF k = "MultiScaleAttention" THEN 1..MaxB ELSE 1..MaxN

Inputs(k, c) ==
    {Tensor(<<b, c.in, h, w>>, Term("input", <<>>)) :
        b \in Batch(k), h \in Spatial(k), w \in Spatial(k)}

\* F.batch_norm rejects, in training mode, an input with a single value per
\* channel (B * H * W = 1).  Every BatchNorm2d of these components sees the
\* batch and spatial size of the input, but the one inside MBConv's
\* depthwise-separable convolution, which sees the strided size.  A module in
\* training mode is given batches its normalization layers accept.
BatchNormAccepts(k, c, x, train) ==
    (train /\ k # "SEBlock") =>
        /\ x.shape[1] * x.shape[3] * x.shape[4] > 1
        /\ (k = "MBConv" /\ c.downscale) =>
              x.shape[1] * ConvStride2(x.shape[3]) * ConvStride2(x.shape[4]) > 1

ForwardOf(k, c, train, st, x, m1, m2) ==
    CASE k = "Mlp" -> MlpForward(c, train, st, x, "")
      [] k = "MBConv" -> MBConvForward(c, train, st, x, m1)
      [] k = "MultiScaleAttention" -> MSAForward(c, train, st, x, "")
      [] k = "EfficientAttention" -> EAForward(c, train, st, x, "")
      [] k = "SEBlock" -> SEForward(c, train, st, x)
      [] k = "ScaleformerBlock" -> ScaleformerBlockForward(c, train, st, x, m1, m2)
      [] k = "ContextFormerBlock" -> ContextFormerBlockForward(c, train, st, x, m1, m2)

\* ----------------------------------------------------------- the machine
NoArg == [x |-> NoTensor, m1 |-> 0, m2 |-> 0]
NoCtor == [kind |-> "", cfg |-> NoCfg, ok |-> FALSE]
NoLay == [stage |-> "none", b |-> 0, d |-> 0, h |-> 0, w |-> 0, p |-> 0,
          shape |-> <<>>, data |-> <<>>]

\* No component constructed yet.
InitMachine ==
    /\ pc = "none"
    /\ kind = ""
    /\ cfg = NoCfg
    /\ training = FALSE
    /\ weights = 0
    /\ stats = ZeroStats
    /\ arg = NoArg
    /\ ret = NoRet
    /\ ctor = NoCtor

Init == InitMachine /\ lay = NoLay

\* Component(...): nn.Module starts in training mode, its buffers fresh.
Construct(k, c) ==
    /\ ctor' = [kind |-> k, cfg |-> c, ok |-> CtorOk(k, c)]
    /\ IF CtorOk(k, c)
       THEN /\ pc' = "idle"
            /\ kind' = k
            /\ cfg' = c
            /\ training' = TRUE
       ELSE UNCHANGED <<pc, kind, cfg, training>>
    /\ UNCHANGED <<weights, stats, arg, ret, lay>>

\* a constructor call of one of the components K
New(K) ==
    /\ pc = "none"
    /\ \E k \in K : \E c \in Configs(k) : Construct(k, c)

\* module.train(mode)
SetTraining ==
    /\ pc = "idle"
    /\ training' = ~training
    /\ UNCHANGED <<pc, kind, cfg, weights, stats, arg, ret, ctor, lay>>

\* optimizer.step(), between two forward passes
OptimizerStep ==
    /\ pc = "idle"
    /\ weights < MaxOpt
    /\ weights' = weights + 1
    /\ UNCHANGED <<pc, kind, cfg, training, stats, arg, ret, ctor, lay>>

\* module(x): the whole forward pass, to its return or its exception
Forward(x, m1, m2) ==
    /\ LET r == ForwardOf(kind, cfg, training, stats, x, m1, m2)
       IN  /\ ret' = r
           /\ stats' = r.stats
    /\ arg' = [x |-> x, m1 |-> m1, m2 |-> m2]
    /\ pc' = "returned"
    /\ UNCHANGED <<kind, cfg, training, weights, ctor, lay>>

\* a forward call on some input, with the random draws of its drop_path calls
Call ==
    /\ pc = "idle"
    /\ training => \A l \in AllBN : stats[l] < MaxTracked
    /\ \E x \in {i \in Inputs(kind, cfg) : BatchNormAccepts(kind, cfg, i, training)} :
         \E m1 \in Masks(cfg.rate, training, x.shape[1]) :
           \E m2 \in (IF kind \in {"ScaleformerBlock", "ContextFormerBlock"}
                      THEN Masks(cfg.rate, training, x.shape[1]) ELSE {0}) :
             Forward(x, m1, m2)

\* the caller takes the result (or the exception) and the module is idle again
Done ==
    /\ pc = "returned"
    /\ pc' = "idle"
    /\ arg' = NoArg
    /\ ret' = NoRet
    /\ UNCHANGED <<kind, cfg, training, weights, stats, ctor, lay>>

\* One step of a program that uses the components K.
Step(K) ==
    \/ New(K)
    \/ SetTraining
    \/ OptimizerStep
    \/ Call
    \/ Done

Next == Step(Kinds)

Spec == Init /\ [][Next]_vars

\* ------------------------------------------- the reshape, element by element
\* The partition and its reverse of MultiScaleAttention.forward applied to
\* the storage of one projected tensor [b, d, h, w] whose elements are
\* labelled 1..b*d*h*w in row-major order; between the two the attention
\* step is taken with identity weights (each token is its own output).
LayInputs ==
    {[stage |-> "input", b |-> b, d |-> d, h |-> h, w |-> w, p |-> p,
      shape |-> <<b, d, h, w>>, data |-> Iota(b * d * h * w)] :
        b \in 1..MaxB, d \in 1..MaxC, h \in 1..MaxHW, w \in 1..MaxHW, p \in 1..MaxP}

InitLayout == InitMachine /\ lay \in LayInputs

\* lines 252-272: the token tensor [b, P*P, d*(h/P)*(w/P)]
PartitionStep ==
    /\ lay.stage = "input"
    /\ LET tok == Partition(Geom(lay.shape), lay.b, lay.d, lay.p,
                            PatchExtent(lay.h, lay.p), lay.p,
                            PatchExtent(lay.w, lay.p))
       IN  lay' = IF tok.ok
                  THEN [lay EXCEPT !.stage = "tokens", !.shape = tok.g.shape,
                                   !.data = Gather(tok.perm, lay.data)]
                  ELSE [lay EXCEPT !.stage = "error"]
    /\ UNCHANGED <<pc, kind, cfg, training, weights, stats, arg, ret, ctor>>

\* lines 285-286: the reassembled tensor [b, d, h, w]
ReverseStep ==
    /\ lay.stage = "tokens"
    /\ LET rev == Reverse(Geom(lay.shape), lay.b, lay.d, lay.p,
                          PatchExtent(lay.h, lay.p), lay.p,
                          PatchExtent(lay.w, lay.p), lay.h, lay.w)
       IN  lay' = IF rev.ok
                  THEN [lay EXCEPT !.stage = "output", !.shape = rev.g.shape,
                                   !.data = Gather(rev.perm, lay.data)]
                  ELSE [lay EXCEPT !.stage = "error"]
    /\ UNCHANGED <<pc, kind, cfg, training, weights, stats, arg, ret, ctor>>

NextLayout == PartitionStep \/ ReverseStep

SpecLayout == InitLayout /\ [][NextLayout]_vars

\* ================================================================ claims
Returned(k) == pc = "returned" /\ kind = k
InB == arg.x.shape[1]
InC == arg.x.shape[2]
InH == arg.x.shape[3]
InW == arg.x.shape[4]

C2_NonDivisibleFails ==
    (Returned("MultiScaleAttention") /\ (InH % cfg.patch # 0 \/ InW % cfg.patch # 0))
        => /\ ~ret.ok
           /\ ret.err = "view"
           /\ ret.out = NoTensor

C2_Witness ==
    /\ Returned("MultiScaleAttention")
    /\ cfg.patch > InH
    /\ InW = 3
    /\ ~ret.ok

\* C3: for every configuration of EfficientAttention whose head_count
\* divides key_channels and value_channels, forward returns a tensor of the
\* input's shape, also when value_channels differs from in_channels.
C3_ShapePreserved ==
    (Returned("EfficientAttention") /\ cfg.key % cfg.heads = 0
                                    /\ cfg.value % cfg.heads = 0)
        => ret.ok /\ ret.out.shape = arg.x.shape

\* C4: constructing EfficientAttention with a head_count that does not
\* divide key_channels or value_channels fails.
C4_CtorValidates ==
    (ctor.kind = "EfficientAttention"
        /\ (ctor.cfg.key % ctor.cfg.heads # 0 \/ ctor.cfg.value % ctor.cfg.heads # 0))
        => ~ctor.ok

Gated(v, mask) ==
    IF training /\ cfg.rate > 0
    THEN [op |-> "drop_path", args |-> <<v>>, k |-> cfg.rate, m |-> mask]
    ELSE v
AttentionOf(k) ==
    IF k = "ScaleformerBlock" THEN "MultiScaleAttention" ELSE "EfficientAttention"
MidVal ==
    Term("add", <<arg.x.val,
                  Gated(Term(AttentionOf(kind), <<Term("norm_1", <<arg.x.val>>)>>),
                        arg.m1)>>)
MlpVal(v) == Term("fc2", <<Term("act", <<Term("fc1", <<v>>)>>)>>)
OutVal == Term("add", <<MidVal, Gated(MlpVal(Term("norm_2", <<MidVal>>)), arg.m2)>>)

\* C6: a forward call of ScaleformerBlock or ContextFormerBlock that returns
\* has computed mid = input + StochasticDepth(Attention(Norm1(input))) and
\* then output = mid + StochasticDepth(MLP(Norm2(mid))), of the input's
\* shape; the two blocks differ in the attention module only.
C6_ResidualComposition ==
    (pc = "returned" /\ kind \in {"ScaleformerBlock", "ContextFormerBlock"} /\ ret.ok)
        => /\ ret.out.val = OutVal
           /\ ret.out.shape = arg.x.shape

C6_Witness ==
    /\ Returned("ScaleformerBlock")
    /\ ret.ok
    /\ training
    /\ cfg.rate = 50
    /\ cfg.patch = 2
    /\ arg.m1 # arg.m2

RECURSIVE HasDropPath(_)
HasDropPath(t) ==
    t.op = "drop_path" \/ \E i \in 1..Len(t.args) : HasDropPath(t.args[i])

\* C7: with the training flag off, a forward call of MBConv, ScaleformerBlock
\* or ContextFormerBlock gives for every drop_path rate the result it gives
\* for rate 0: no branch is zeroed or rescaled.
C7_InferenceNoDrop ==
    (pc = "returned" /\ ~training
        /\ kind \in {"MBConv", "ScaleformerBlock", "ContextFormerBlock"})
        => /\ ret = ForwardOf(kind, [cfg EXCEPT !.rate = 0], training, stats,
                              arg.x, arg.m1, arg.m2)
           /\ ~HasDropPath(ret.out.val)

C7_Witness ==
    /\ Returned("MBConv")
    /\ ~training
    /\ cfg.rate = 50
    /\ ret.ok

\* a step that is one forward call
IsForward == pc = "idle" /\ pc' = "returned"

\* C8 (as stated): a forward call of any component leaves all its learned
\* state unchanged, normalization statistics included, in training mode as
\* in inference mode.
C8_ForwardKeepsState ==
    [][IsForward => (weights' = weights /\ stats' = stats)]_vars

\* C8 (amended): a forward call leaves every kernel and weight unchanged in
\* both modes and, in inference mode, the normalization statistics too; in
\* training mode it may advance the running statistics of BatchNorm layers
\* (never for SEBlock, which has none), once per layer; weights move only in
\* an optimizer step between two forward calls.
C8_ForwardKeepsWeights ==
    [][/\ IsForward =>
            /\ weights' = weights
            /\ ~training => stats' = stats
            /\ kind = "SEBlock" => stats' = stats
            /\ \A l \in AllBN : stats'[l] \in {stats[l], stats[l] + 1}
       /\ weights' # weights => (pc = "idle" /\ pc' = "idle")
       /\ stats' # stats => (IsForward /\ training)]_vars

C8_Witness ==
    /\ Returned("Mlp")
    /\ training
    /\ ret.ok
    /\ stats["fc1.1"] = 1
    /\ stats["fc2.1"] = 1

\* C9: the patch partition and its reverse are exact inverses: the token
\* tensor [B, P*P, D*(H/P)*(W/P)] holds at token (ph, pw), feature
\* (d, hh, ww) the element (b, d, ph*(H/P)+hh, pw*(W/P)+ww), and the reverse
\* puts every element back at its original (b, d, h, w) index; neither step
\* fails when P divides H and W.
C9_PartitionRoundTrip ==
    LET hp == lay.h \div lay.p
        wp == lay.w \div lay.p
    IN  /\ lay.stage = "tokens" =>
            /\ lay.shape = <<lay.b, lay.p * lay.p, lay.d * hp * wp>>
            /\ \A bi \in 0..(lay.b - 1), di \in 0..(lay.d - 1) :
                 \A ph \in 0..(lay.p - 1), pw \in 0..(lay.p - 1) :
                   \A hh \in 0..(hp - 1), ww \in 0..(wp - 1) :
                     lay.data[1 + (bi * lay.p * lay.p + ph * lay.p + pw)
                                    * (lay.d * hp * wp)
                                + (di * hp + hh) * wp + ww]
                       = 1 + ((bi * lay.d + di) * lay.h + ph * hp + hh) * lay.w
                           + pw * wp + ww
        /\ lay.stage = "output" =>
            /\ lay.shape = <<lay.b, lay.d, lay.h, lay.w>>
            /\ lay.data = Iota(lay.b * lay.d * lay.h * lay.w)
        /\ lay.stage = "error" => (lay.h % lay.p # 0 \/ lay.w % lay.p # 0)

C9_Witness ==
    /\ lay.stage = "output"
    /\ lay.p = 2
    /\ lay.b = 2
    /\ lay.d = 2
    /\ lay.h = 4
    /\ lay.w = 2

\* C10: for every configuration of EfficientAttention whose head_count does
\* not divide key_channels or value_channels, no forward call returns an
\* output (no trailing key or value channel is silently left unused).
C10_NoSilentTruncation ==
    (Returned("EfficientAttention")
        /\ (cfg.key % cfg.heads # 0 \/ cfg.value % cfg.heads # 0))
        => ~ret.ok


\* C11 (as stated): with patchsize 1 the attention step of
\* MultiScaleAttention relates all the positions of the H x W grid to each
\* other: its score matrix has one row and one column per grid position.
C11_FullGridAttention ==
    (Returned("MultiScaleAttention") /\ cfg.patch = 1 /\ ret.ok)
        => ret.aux.scores = <<InB, InH * InW, InH * InW>>

\* C11 (amended): the attention step of MultiScaleAttention attends across
\* the P * P patch tokens.  With patchsize 1 there is a single token holding
\* the whole grid (D * H * W features), the score matrix is 1 x 1, its
\* softmax weight is 1 and the attention output is the value projection;
\* the scores relate the H * W grid positions to each other exactly when
\* P = H = W.
C11_SingleToken ==
    (Returned("MultiScaleAttention") /\ ret.ok)
        => /\ ret.aux.scores = <<InB, cfg.patch * cfg.patch, cfg.patch * cfg.patch>>
           /\ cfg.patch = 1 =>
                 /\ ret.aux.tokens = <<InB, 1, InC * InH * InW>>
                 /\ ret.aux.scores = <<InB, 1, 1>>
                 /\ ret.aux.attn = Term("value_embedding", <<arg.x.val>>)
           /\ cfg.patch > 1 => ret.aux.attn.op = "matmul"
           /\ ret.aux.scores = <<InB, InH * InW, InH * InW>>
                 <=> (cfg.patch = InH /\ cfg.patch = InW)

C11_Witness ==
    /\ Returned("MultiScaleAttention")
    /\ ret.ok
    /\ cfg.patch = 1
    /\ arg.x.shape = <<2, 2, 4, 3>>
    /\ ret.aux.scores = <<2, 1, 1>>

====
